---- MODULE Spec2Model ----
(***************************************************************************)
(* rlox (treewalk): the Scanner of lexer.rs, the recursive-descent Parser  *)
(* of parser.rs and the Expr model of ast.rs, as a state machine.          *)
(*                                                                         *)
(* A character is a one-character string; the two names "U+00E9" and       *)
(* "U+20AC" stand for the characters e-acute (2 bytes in UTF-8,            *)
(* alphabetic) and the euro sign (3 bytes, neither alphabetic nor          *)
(* whitespace).  A source is a sequence of characters (source_chars); the  *)
(* String `source` is the same sequence seen as bytes, so its len() is the *)
(* sum of the characters' widths and its get(a..b) takes byte offsets.     *)
(***************************************************************************)
EXTENDS Integers, Sequences, FiniteSets, TLC

\* Longest source drawn from ScanAlphabet / ParseAlphabet, and the number of
\* times scan_tokens may be called on one Scanner.
MaxLen == 3
MaxParseLen == 4
MaxCalls == 2

\* Longest source drawn from ScanAlphabet for the Scanner run alone.
MaxScanLen == 2

\* The most Unary and Grouping nodes put around an Expr given to eval.
MaxWrap == 2

VARIABLES source, start, current, line, tokens, had_error,
          p_current, result, pc, calls, panic_msg, out_value, out_text

vars == <<source, start, current, line, tokens, had_error,
          p_current, result, pc, calls, panic_msg, out_value, out_text>>

----------------------------------------------------------------------------
(* Characters *)

Digits == {"0", "1", "2", "3", "4", "5", "6", "7", "8", "9"}

Letters == {"a", "b", "c", "d", "e", "f", "g", "h", "i", "j", "k", "l", "m",
            "n", "o", "p", "q", "r", "s", "t", "u", "v", "w", "x", "y", "z"}

is_digit(c) == c \in Digits

is_whitespace(c) == c \in {" ", "\t", "\n", "\r"}

UpperLetters == {"A", "B", "C", "D", "E", "F", "G", "H", "I", "J", "K", "L",
                 "M", "N", "O", "P", "Q", "R", "S", "T", "U", "V", "W", "X",
                 "Y", "Z"}

is_alphabetic(c) == c \in Letters \cup UpperLetters \cup {"U+00E9"}

\* Number of bytes of the character in the String `source`.
len_utf8(c) == CASE c = "U+00E9" -> 2
                 [] c = "U+20AC" -> 3
                 [] OTHER -> 1

RECURSIVE byte_len(_)
byte_len(s) == IF s = <<>> THEN 0 ELSE len_utf8(Head(s)) + byte_len(Tail(s))

\* Byte offset at which the i-th character (1-based) of s starts; i = Len(s)+1
\* gives the end of the string.
byte_offset(s, i) == byte_len(SubSeq(s, 1, i - 1))

NoStr == [some |-> FALSE, str |-> <<>>]

\* str::get(a..b): None unless a <= b <= len() and both lie on a character
\* boundary.
str_get(s, a, b) ==
    LET bounds == {i \in 1..(Len(s) + 1) : byte_offset(s, i) = a}
        bounde == {i \in 1..(Len(s) + 1) : byte_offset(s, i) = b}
    IN  IF a <= b /\ bounds # {} /\ bounde # {}
        THEN [some |-> TRUE,
              str |-> SubSeq(s, CHOOSE i \in bounds : TRUE,
                                (CHOOSE i \in bounde : TRUE) - 1)]
        ELSE NoStr

----------------------------------------------------------------------------
(* Tokens *)

NoLiteral == [kind |-> "None", num |-> <<0, 0>>, str |-> <<>>]

Token_new(typ, lexeme, ln) ==
    [tok_type |-> typ, lexeme |-> lexeme, literal |-> NoLiteral, line |-> ln]

Token_string_literal(s, ln) ==
    [tok_type |-> "String", lexeme |-> s,
     literal |-> [kind |-> "String", num |-> <<0, 0>>, str |-> s], line |-> ln]

Token_number_literal(val, lex, ln) ==
    [tok_type |-> "Number", lexeme |-> lex,
     literal |-> [kind |-> "Number", num |-> val, str |-> <<>>], line |-> ln]

Token_identifier(id, ln) ==
    [tok_type |-> "Identifier", lexeme |-> id,
     literal |-> [kind |-> "Identifier", num |-> <<0, 0>>, str |-> id], line |-> ln]

Token_eof(ln) == Token_new("Eof", <<>>, ln)

reserved_words ==
    [w \in {<<"a","n","d">>, <<"c","l","a","s","s">>, <<"e","l","s","e">>,
            <<"f","a","l","s","e">>, <<"f","u","n">>, <<"f","o","r">>,
            <<"i","f">>, <<"n","i","l">>, <<"o","r">>,
            <<"p","r","i","n","t">>, <<"r","e","t","u","r","n">>,
            <<"s","u","p","e","r">>, <<"t","h","i","s">>,
            <<"t","r","u","e">>, <<"v","a","r">>,
            <<"w","h","i","l","e">>} |->
        CASE w = <<"a","n","d">> -> "And"
          [] w = <<"c","l","a","s","s">> -> "Class"
          [] w = <<"e","l","s","e">> -> "Else"
          [] w = <<"f","a","l","s","e">> -> "False"
          [] w = <<"f","u","n">> -> "Fun"
          [] w = <<"f","o","r">> -> "For"
          [] w = <<"i","f">> -> "If"
          [] w = <<"n","i","l">> -> "Nil"
          [] w = <<"o","r">> -> "Or"
          [] w = <<"p","r","i","n","t">> -> "Print"
          [] w = <<"r","e","t","u","r","n">> -> "Return"
          [] w = <<"s","u","p","e","r">> -> "Super"
          [] w = <<"t","h","i","s">> -> "This"
          [] w = <<"t","r","u","e">> -> "True"
          [] w = <<"v","a","r">> -> "Var"
          [] OTHER -> "While"]

----------------------------------------------------------------------------
(* f64 parsing of a lexeme: [sign] digits [ "." digits ] or [sign] "." digits.   *)
(* A value is <<m, k>>, the decimal m / 10^k with trailing zeros removed, so     *)
(* two values are equal exactly when the numbers are.                            *)

digit_value(c) == CASE c = "0" -> 0 [] c = "1" -> 1 [] c = "2" -> 2
                    [] c = "3" -> 3 [] c = "4" -> 4 [] c = "5" -> 5
                    [] c = "6" -> 6 [] c = "7" -> 7 [] c = "8" -> 8
                    [] OTHER -> 9

RECURSIVE digits_value(_, _)
digits_value(s, acc) ==
    IF s = <<>> THEN acc
    ELSE digits_value(Tail(s), acc * 10 + digit_value(Head(s)))

RECURSIVE normalize(_, _)
normalize(m, k) ==
    IF k > 0 /\ m % 10 = 0 THEN normalize(m \div 10, k - 1) ELSE <<m, k>>

all_digits(s) == \A i \in 1..Len(s) : is_digit(s[i])

dot_positions(s) == {i \in 1..Len(s) : s[i] = "."}

NoF64 == [ok |-> FALSE, val |-> <<0, 0>>]

unsigned_f64(s) ==
    IF s # <<>> /\ all_digits(s)
    THEN [ok |-> TRUE, val |-> <<digits_value(s, 0), 0>>]
    ELSE IF Cardinality(dot_positions(s)) = 1
    THEN LET d == CHOOSE i \in dot_positions(s) : TRUE
             ip == SubSeq(s, 1, d - 1)
             fp == SubSeq(s, d + 1, Len(s))
         IN  IF all_digits(ip) /\ all_digits(fp) /\ Len(s) > 1
             THEN [ok |-> TRUE,
                   val |-> normalize(digits_value(ip \o fp, 0), Len(fp))]
             ELSE NoF64
    ELSE NoF64

parse_f64(s) ==
    IF s # <<>> /\ Head(s) \in {"+", "-"}
    THEN LET u == unsigned_f64(Tail(s))
         IN  IF u.ok /\ Head(s) = "-"
             THEN [ok |-> TRUE, val |-> <<0 - u.val[1], u.val[2]>>]
             ELSE u
    ELSE unsigned_f64(s)

\* The f64 -0.0, which no lexeme of the scanner gives and negating 0 does.
NegZero == <<0, 1>>

\* The f64 `- n`.
f64_neg(n) ==
    IF n = <<0, 0>> THEN NegZero
    ELSE IF n = NegZero THEN <<0, 0>>
    ELSE <<0 - n[1], n[2]>>

----------------------------------------------------------------------------
(* Scanner.  A scanner value s is the record of the struct's fields plus    *)
(* `panic`: the message of the panic that unwound the call, "" when none.    *)

OutOfBounds == "index out of bounds"

\* `let x = e; F(x)`: e is evaluated once and F sees its value.
With(e, F(_)) == CHOOSE r \in {F(x) : x \in {e}} : TRUE

Panicked(s, msg) == [s EXCEPT !.panic = msg]

is_at_end(s) == s.current >= byte_len(s.source)

\* source_chars[i] with the Vec's bounds check (i is 0-based).
in_bounds(s, i) == i < Len(s.source)

NoChar == [kind |-> "None", c |-> ""]

peek(s) ==
    IF is_at_end(s) THEN NoChar
    ELSE IF ~in_bounds(s, s.current) THEN [kind |-> "Panic", c |-> ""]
    ELSE [kind |-> "Some", c |-> s.source[s.current + 1]]

add_token(s, typ) ==
    With(str_get(s.source, s.start, s.current), LAMBDA lexeme :
        IF ~lexeme.some THEN Panicked(s, "this should never happen 2")
        ELSE [s EXCEPT !.tokens = Append(@, Token_new(typ, lexeme.str, s.line))])

error(s, message) == [s EXCEPT !.had_error = TRUE]

\* match_next without its `self.current += 1`.
match_next_mut(s, c) ==
    IF is_at_end(s) THEN [s |-> s, ok |-> FALSE]
    ELSE IF ~in_bounds(s, s.current)
    THEN [s |-> Panicked(s, OutOfBounds), ok |-> FALSE]
    ELSE [s |-> s, ok |-> s.source[s.current + 1] = c]

\* The result is the scanner after the call and the bool returned.
match_next(s, c) ==
    IF is_at_end(s) THEN [s |-> s, ok |-> FALSE]
    ELSE IF ~in_bounds(s, s.current)
    THEN [s |-> Panicked(s, OutOfBounds), ok |-> FALSE]
    ELSE IF s.source[s.current + 1] # c THEN [s |-> s, ok |-> FALSE]
    ELSE [s |-> [s EXCEPT !.current = @ + 1], ok |-> TRUE]

add_alternatives(s, next, typ_match, typ_not_match) ==
    With(match_next(s, next), LAMBDA m :
        IF m.s.panic # "" THEN m.s
        ELSE add_token(m.s, IF m.ok THEN typ_match ELSE typ_not_match))

RECURSIVE comment_loop(_)
comment_loop(s) ==
    LET p == peek(s)
    IN  CASE p.kind = "None" -> s
          [] p.kind = "Panic" -> Panicked(s, OutOfBounds)
          [] OTHER -> IF p.c = "\n" THEN s
                      ELSE comment_loop([s EXCEPT !.current = @ + 1])

comment_or_slash(s) ==
    With(match_next(s, "/"), LAMBDA m :
        IF m.s.panic # "" THEN m.s
        ELSE IF m.ok THEN comment_loop(m.s)
        ELSE add_token(m.s, "Slash"))

\* process_whitespace without its `self.line += 1`.
process_whitespace_mut(s, c) == s

process_whitespace(s, c) ==
    IF c = "\n" THEN [s EXCEPT !.line = @ + 1] ELSE s

RECURSIVE string_loop(_)
string_loop(s) ==
    With(peek(s), LAMBDA p :
        CASE p.kind = "None" -> s
          [] p.kind = "Panic" -> Panicked(s, OutOfBounds)
          [] OTHER ->
               IF p.c = "\"" THEN s
               ELSE With([s EXCEPT
                             !.line = IF p.c = "\n" THEN @ + 1 ELSE @,
                             !.current = @ + 1],
                         LAMBDA a : string_loop(a)))

string(s) ==
    With(string_loop(s), LAMBDA l :
        IF l.panic # "" THEN l
        ELSE IF is_at_end(l) THEN error(l, "Unterminated string literal")
        ELSE IF ~in_bounds(l, l.current) THEN Panicked(l, OutOfBounds)
        ELSE With([l EXCEPT !.current = @ + 1], LAMBDA a :
             With(str_get(a.source, a.start + 1, a.current - 1), LAMBDA value :
                 IF ~value.some THEN Panicked(a, "this should never happen 3")
                 ELSE [a EXCEPT !.tokens =
                          Append(@, Token_string_literal(value.str, a.line))])))

RECURSIVE advance_digits(_)
advance_digits(s) ==
    LET p == peek(s)
    IN  CASE p.kind = "None" -> s
          [] p.kind = "Panic" -> Panicked(s, OutOfBounds)
          [] OTHER -> IF ~is_digit(p.c) THEN s
                      ELSE advance_digits([s EXCEPT !.current = @ + 1])

\* The result is "true", "false" or "panic".
peek_next_is_digit(s) ==
    IF s.current + 2 >= byte_len(s.source) THEN "false"
    ELSE IF ~in_bounds(s, s.current + 2) THEN "panic"
    ELSE IF is_digit(s.source[s.current + 3]) THEN "true"
    ELSE "false"

number(s) ==
    With(advance_digits(s), LAMBDA d :
    With(peek(d), LAMBDA p :
    With(IF p.kind = "Some" /\ p.c = "." THEN peek_next_is_digit(d)
         ELSE "false", LAMBDA n :
    With(CASE d.panic # "" -> d
           [] p.kind = "Panic" -> Panicked(d, OutOfBounds)
           [] n = "panic" -> Panicked(d, OutOfBounds)
           [] n = "true" -> advance_digits([d EXCEPT !.current = @ + 1])
           [] OTHER -> d, LAMBDA f :
    With(str_get(f.source, f.start, f.current), LAMBDA str_value :
    With(parse_f64(str_value.str), LAMBDA val :
        IF f.panic # "" THEN f
        ELSE IF ~str_value.some
        THEN Panicked(f, "there should be a string in this range")
        ELSE IF ~val.ok THEN Panicked(f, "called unwrap on an Err value")
        ELSE [f EXCEPT !.tokens =
                 Append(@, Token_number_literal(val.val, str_value.str,
                                                f.line))]))))))

RECURSIVE identifier_loop(_)
identifier_loop(s) ==
    LET p == peek(s)
    IN  CASE p.kind = "None" -> s
          [] p.kind = "Panic" -> Panicked(s, OutOfBounds)
          [] OTHER -> IF ~is_alphabetic(p.c) THEN s
                      ELSE identifier_loop([s EXCEPT !.current = @ + 1])

identifier(s) ==
    With(identifier_loop(s), LAMBDA l :
    With(str_get(l.source, l.start, l.current), LAMBDA ident :
        IF l.panic # "" THEN l
        ELSE IF ~ident.some
        THEN Panicked(l, "there should be a string in this range")
        ELSE IF ident.str \in DOMAIN reserved_words
        THEN add_token(l, reserved_words[ident.str])
        ELSE [l EXCEPT !.tokens =
                 Append(@, Token_identifier(ident.str, l.line))]))

\* One call of scan_token: advance() and the match on the character read.
scan_token(s) ==
    IF ~in_bounds(s, s.current) THEN Panicked(s, OutOfBounds)
    ELSE
    LET c == s.source[s.current + 1]
        a == [s EXCEPT !.current = @ + 1]
    IN  CASE c = "(" -> add_token(a, "LeftParen")
          [] c = ")" -> add_token(a, "RightParen")
          [] c = "{" -> add_token(a, "LeftBrace")
          [] c = "}" -> add_token(a, "RightBrace")
          [] c = "," -> add_token(a, "Comma")
          [] c = "." -> add_token(a, "Dot")
          [] c = "-" -> add_token(a, "Minus")
          [] c = "+" -> add_token(a, "Plus")
          [] c = ";" -> add_token(a, "Semicolon")
          [] c = "/" -> comment_or_slash(a)
          [] c = "*" -> add_token(a, "Star")
          [] c = "!" -> add_alternatives(a, "=", "BangEqual", "Bang")
          [] c = "=" -> add_alternatives(a, "=", "EqualEqual", "Equal")
          [] c = ">" -> add_alternatives(a, "=", "GreaterEqual", "Greater")
          [] c = "<" -> add_alternatives(a, "=", "LessEqual", "Less")
          [] c = "\"" -> string(a)
          [] OTHER ->
               IF is_digit(c) THEN number(a)
               ELSE IF is_whitespace(c) THEN process_whitespace(a, c)
               ELSE IF is_alphabetic(c) THEN identifier(a)
               ELSE error(a, "Unrecognized character")

\* scan_tokens from the scanner s on: the loop, then the push of Eof.
RECURSIVE scan_tokens(_)
scan_tokens(s) ==
    IF s.panic # "" THEN s
    ELSE IF is_at_end(s) THEN [s EXCEPT !.tokens = Append(@, Token_eof(s.line))]
    ELSE scan_tokens(scan_token([s EXCEPT !.start = s.current]))

----------------------------------------------------------------------------
(* Expr (ast.rs).  Every node is a record of the same shape: `op` is "" and  *)
(* `lit` is NoLit where the variant has none, `kids` are the boxed children. *)

NoLit == [kind |-> "None", num |-> <<0, 0>>, str |-> <<>>]

Expr_number_literal(n) ==
    [node |-> "Literal", op |-> "",
     lit |-> [kind |-> "Number", num |-> n, str |-> <<>>], kids |-> <<>>]

Expr_string_literal(s) ==
    [node |-> "Literal", op |-> "",
     lit |-> [kind |-> "String", num |-> <<0, 0>>, str |-> s], kids |-> <<>>]

Expr_true_literal ==
    [node |-> "Literal", op |-> "",
     lit |-> [kind |-> "True", num |-> <<0, 0>>, str |-> <<>>], kids |-> <<>>]

Expr_false_literal ==
    [node |-> "Literal", op |-> "",
     lit |-> [kind |-> "False", num |-> <<0, 0>>, str |-> <<>>], kids |-> <<>>]

Expr_nil_literal ==
    [node |-> "Literal", op |-> "",
     lit |-> [kind |-> "Nil", num |-> <<0, 0>>, str |-> <<>>], kids |-> <<>>]

Expr_group(e) == [node |-> "Grouping", op |-> "", lit |-> NoLit, kids |-> <<e>>]

Expr_binary(op, e1, e2) ==
    [node |-> "Binary", op |-> op, lit |-> NoLit, kids |-> <<e1, e2>>]

Expr_unary(op, e) == [node |-> "Unary", op |-> op, lit |-> NoLit, kids |-> <<e>>]

\* "None" stands for Option::None.
UnOp_from_token_type(toktyp) ==
    CASE toktyp = "Minus" -> "Minus"
      [] toktyp = "Bang" -> "Not"
      [] OTHER -> "None"

BinOp_from_token_type(toktyp) ==
    CASE toktyp = "EqualEqual" -> "Equal"
      [] toktyp = "BangEqual" -> "NotEqual"
      [] toktyp = "Less" -> "Lt"
      [] toktyp = "LessEqual" -> "LtEqual"
      [] toktyp = "Greater" -> "Gt"
      [] toktyp = "GreaterEqual" -> "GtEqual"
      [] toktyp = "Plus" -> "Plus"
      [] toktyp = "Minus" -> "Minus"
      [] toktyp = "Slash" -> "Div"
      [] toktyp = "Star" -> "Mult"
      [] OTHER -> "None"

----------------------------------------------------------------------------
(* Parser.  A parse function takes the token vector and the cursor          *)
(* `current` and gives [ok, expr, current, msg]: ok with the Expr built and *)
(* the cursor after it, or not ok with the message of the panic! that       *)
(* unwound it.  A panic carries its message and nothing else.               *)

NoExpr == [node |-> "None", op |-> "", lit |-> NoLit, kids |-> <<>>]

Parsed(e, cur) == [ok |-> TRUE, expr |-> e, current |-> cur, msg |-> ""]

ParsePanic(cur, msg) == [ok |-> FALSE, expr |-> NoExpr, current |-> cur, msg |-> msg]

is_eof(tok) == tok.tok_type = "Eof"

Parser_is_at_end(toks, cur) == cur >= Len(toks) \/ is_eof(toks[cur + 1])

Parser_peek(toks, cur) ==
    IF Parser_is_at_end(toks, cur) THEN toks[Len(toks)] ELSE toks[cur + 1]

check(toks, cur, typ) ==
    IF Parser_is_at_end(toks, cur) THEN FALSE
    ELSE Parser_peek(toks, cur).tok_type = typ

\* self.tokens[self.current - 1]
previous(toks, cur) == toks[cur]

\* The cursor after advance().
Parser_advance(toks, cur) == IF ~Parser_is_at_end(toks, cur) THEN cur + 1 ELSE cur

\* [ok, current]: whether a type of `types` matched, and the cursor after.
match_token_types(toks, cur, types) ==
    IF \E i \in 1..Len(types) : check(toks, cur, types[i])
    THEN [ok |-> TRUE, current |-> Parser_advance(toks, cur)]
    ELSE [ok |-> FALSE, current |-> cur]

\* [ok, current]: ok is FALSE when consume panics with msg.
consume(toks, cur, typ) ==
    IF check(toks, cur, typ)
    THEN [ok |-> TRUE, current |-> Parser_advance(toks, cur)]
    ELSE [ok |-> FALSE, current |-> cur]

binary_from_token(op_tok, e1, e2, cur) ==
    IF BinOp_from_token_type(op_tok) = "None"
    THEN ParsePanic(cur, "Unexpected token type for binary operator!")
    ELSE Parsed(Expr_binary(BinOp_from_token_type(op_tok), e1, e2), cur)

unary_from_token(op_tok, e, cur) ==
    IF UnOp_from_token_type(op_tok) = "None"
    THEN ParsePanic(cur, "Unexpected token type for unary operator!")
    ELSE Parsed(Expr_unary(UnOp_from_token_type(op_tok), e), cur)

RECURSIVE parse_expression(_, _), parse_equality(_, _), equality_loop(_, _, _),
          parse_comparison(_, _), comparison_loop(_, _, _),
          parse_term(_, _), term_loop(_, _, _), term_loop_mut(_, _, _),
          parse_factor(_, _), factor_loop(_, _, _), factor_loop_mut(_, _, _),
          parse_unary(_, _), parse_unary_mut(_, _), parse_primary(_, _),
          equality_loop_mut(_, _, _),
          equality_from(_, _), comparison_from(_, _), term_from(_, _),
          factor_from(_, _)

\* The tail of the '(' branch of parse_primary: e is what parse_expression gave.
parse_group(toks, e) ==
    IF ~e.ok THEN e
    ELSE IF ~consume(toks, e.current, "RightParen").ok
    THEN ParsePanic(e.current, "Expect ')' after expression")
    ELSE Parsed(Expr_group(e.expr), consume(toks, e.current, "RightParen").current)

parse_primary(toks, cur) ==
    IF match_token_types(toks, cur, <<"False">>).ok
    THEN Parsed(Expr_false_literal, cur + 1)
    ELSE IF match_token_types(toks, cur, <<"True">>).ok
    THEN Parsed(Expr_true_literal, cur + 1)
    ELSE IF match_token_types(toks, cur, <<"Nil">>).ok
    THEN Parsed(Expr_nil_literal, cur + 1)
    ELSE IF match_token_types(toks, cur, <<"Number", "String">>).ok
    THEN LET v == previous(toks, cur + 1).literal
         IN  CASE v.kind = "Number" -> Parsed(Expr_number_literal(v.num), cur + 1)
               [] v.kind = "String" -> Parsed(Expr_string_literal(v.str), cur + 1)
               [] OTHER -> ParsePanic(cur + 1,
                               "Invalid value for token, should never happen!")
    ELSE IF match_token_types(toks, cur, <<"LeftParen">>).ok
    THEN parse_group(toks, parse_expression(toks, cur + 1))
    ELSE ParsePanic(cur, "Expected expression")

\* Expr::unary_from_token on the operand parsed, unless parsing it panicked.
unary_of(op_type, right) ==
    IF ~right.ok THEN right
    ELSE unary_from_token(op_type, right.expr, right.current)

\* parse_unary with the operand taken by parse_factor.
parse_unary_mut(toks, cur) ==
    LET m == match_token_types(toks, cur, <<"Bang", "Minus">>)
    IN  IF m.ok
        THEN unary_of(previous(toks, m.current).tok_type,
                      parse_factor(toks, m.current))
        ELSE parse_primary(toks, cur)

parse_unary(toks, cur) ==
    LET m == match_token_types(toks, cur, <<"Bang", "Minus">>)
    IN  IF m.ok
        THEN unary_of(previous(toks, m.current).tok_type,
                      parse_unary(toks, m.current))
        ELSE parse_primary(toks, cur)

\* Expr::binary_from_token on the right operand parsed, unless parsing it
\* panicked.
binary_of(op_type, expr, right) ==
    IF ~right.ok THEN right
    ELSE binary_from_token(op_type, expr, right.expr, right.current)

\* The loop of parse_factor with the right operand taken by parse_factor.
factor_loop_mut(toks, expr, cur) ==
    LET m == match_token_types(toks, cur, <<"Slash", "Star">>)
        b == binary_of(previous(toks, m.current).tok_type, expr,
                       parse_factor(toks, m.current))
    IN  IF ~m.ok THEN Parsed(expr, cur) ELSE factor_from(toks, b)

factor_loop(toks, expr, cur) ==
    LET m == match_token_types(toks, cur, <<"Slash", "Star">>)
        b == binary_of(previous(toks, m.current).tok_type, expr,
                       parse_unary(toks, m.current))
    IN  IF ~m.ok THEN Parsed(expr, cur) ELSE factor_from(toks, b)

\* The loop goes on from the Expr of b, unless parsing it panicked.
factor_from(toks, expr) ==
    IF ~expr.ok THEN expr ELSE factor_loop(toks, expr.expr, expr.current)

parse_factor(toks, cur) == factor_from(toks, parse_unary(toks, cur))

\* The loop of parse_term with the right operand taken by parse_unary.
term_loop_mut(toks, expr, cur) ==
    LET m == match_token_types(toks, cur, <<"Plus", "Minus">>)
        b == binary_of(previous(toks, m.current).tok_type, expr,
                       parse_unary(toks, m.current))
    IN  IF ~m.ok THEN Parsed(expr, cur) ELSE term_from(toks, b)

term_loop(toks, expr, cur) ==
    LET m == match_token_types(toks, cur, <<"Plus", "Minus">>)
        b == binary_of(previous(toks, m.current).tok_type, expr,
                       parse_factor(toks, m.current))
    IN  IF ~m.ok THEN Parsed(expr, cur) ELSE term_from(toks, b)

term_from(toks, expr) ==
    IF ~expr.ok THEN expr ELSE term_loop(toks, expr.expr, expr.current)

parse_term(toks, cur) == term_from(toks, parse_factor(toks, cur))

comparison_loop(toks, expr, cur) ==
    LET m == match_token_types(toks, cur,
                 <<"Greater", "GreaterEqual", "Less", "LessEqual">>)
        b == binary_of(previous(toks, m.current).tok_type, expr,
                       parse_term(toks, m.current))
    IN  IF ~m.ok THEN Parsed(expr, cur) ELSE comparison_from(toks, b)

comparison_from(toks, expr) ==
    IF ~expr.ok THEN expr ELSE comparison_loop(toks, expr.expr, expr.current)

parse_comparison(toks, cur) == comparison_from(toks, parse_term(toks, cur))

\* The loop of parse_equality matching Equal ('=') too.
equality_loop_mut(toks, expr, cur) ==
    LET m == match_token_types(toks, cur, <<"BangEqual", "EqualEqual", "Equal">>)
        b == binary_of(previous(toks, m.current).tok_type, expr,
                       parse_comparison(toks, m.current))
    IN  IF ~m.ok THEN Parsed(expr, cur) ELSE equality_from(toks, b)

equality_loop(toks, expr, cur) ==
    LET m == match_token_types(toks, cur, <<"BangEqual", "EqualEqual">>)
        b == binary_of(previous(toks, m.current).tok_type, expr,
                       parse_comparison(toks, m.current))
    IN  IF ~m.ok THEN Parsed(expr, cur) ELSE equality_from(toks, b)

equality_from(toks, expr) ==
    IF ~expr.ok THEN expr ELSE equality_loop(toks, expr.expr, expr.current)

parse_equality(toks, cur) == equality_from(toks, parse_comparison(toks, cur))

parse_expression(toks, cur) == parse_equality(toks, cur)

----------------------------------------------------------------------------
(* Display (ast.rs): the text of format!("{}", e), a sequence of characters. *)

digit_char(d) == CASE d = 0 -> "0" [] d = 1 -> "1" [] d = 2 -> "2"
                   [] d = 3 -> "3" [] d = 4 -> "4" [] d = 5 -> "5"
                   [] d = 6 -> "6" [] d = 7 -> "7" [] d = 8 -> "8"
                   [] OTHER -> "9"

\* The decimal digits of the natural number n.
RECURSIVE nat_text(_)
nat_text(n) ==
    IF n < 10 THEN <<digit_char(n)>>
    ELSE Append(nat_text(n \div 10), digit_char(n % 10))

\* The last k decimal digits of n, with leading zeros.
RECURSIVE frac_text(_, _)
frac_text(n, k) ==
    IF k = 0 THEN <<>>
    ELSE Append(frac_text(n \div 10, k - 1), digit_char(n % 10))

RECURSIVE pow10(_)
pow10(k) == IF k = 0 THEN 1 ELSE 10 * pow10(k - 1)

\* Display of an f64: sign, integer part, and the fraction when there is one.
f64_fmt(n) ==
    IF n = NegZero THEN <<"-", "0">>
    ELSE LET a == IF n[1] < 0 THEN 0 - n[1] ELSE n[1]
         IN  (IF n[1] < 0 THEN <<"-">> ELSE <<>>)
                 \o nat_text(a \div pow10(n[2]))
                 \o (IF n[2] = 0 THEN <<>>
                     ELSE <<".">> \o frac_text(a % pow10(n[2]), n[2]))

Literal_fmt(l) ==
    CASE l.kind = "Number" -> f64_fmt(l.num)
      [] l.kind = "String" -> <<"\"">> \o l.str \o <<"\"">>
      [] l.kind = "True" -> <<"t", "r", "u", "e">>
      [] l.kind = "False" -> <<"f", "a", "l", "s", "e">>
      [] OTHER -> <<"n", "i", "l">>

UnOp_fmt(op) == IF op = "Minus" THEN <<"n", "e", "g">> ELSE <<"n", "o", "t">>

BinOp_fmt(op) ==
    CASE op = "Equal" -> <<"=", "=">>
      [] op = "NotEqual" -> <<"!", "=">>
      [] op = "Lt" -> <<"<">>
      [] op = "LtEqual" -> <<"<", "=">>
      [] op = "Gt" -> <<">">>
      [] op = "GtEqual" -> <<">", "=">>
      [] op = "Plus" -> <<"+">>
      [] op = "Minus" -> <<"-">>
      [] op = "Mult" -> <<"*">>
      [] OTHER -> <<"/">>

RECURSIVE Expr_fmt(_)

\* The Binary arm written infix: "({} {} {})" with e1, op, e2.
Expr_fmt_mut(e) ==
    CASE e.node = "Literal" -> Literal_fmt(e.lit)
      [] e.node = "Unary" ->
           <<"(">> \o UnOp_fmt(e.op) \o <<" ">> \o Expr_fmt(e.kids[1]) \o <<")">>
      [] e.node = "Binary" ->
           <<"(">> \o Expr_fmt(e.kids[1]) \o <<" ">> \o BinOp_fmt(e.op) \o <<" ">>
               \o Expr_fmt(e.kids[2]) \o <<")">>
      [] OTHER ->
           <<"(", "g", "r", "o", "u", "p", " ">> \o Expr_fmt(e.kids[1]) \o <<")">>

Expr_fmt(e) ==
    CASE e.node = "Literal" -> Literal_fmt(e.lit)
      [] e.node = "Unary" ->
           <<"(">> \o UnOp_fmt(e.op) \o <<" ">> \o Expr_fmt(e.kids[1]) \o <<")">>
      [] e.node = "Binary" ->
           <<"(">> \o BinOp_fmt(e.op) \o <<" ">> \o Expr_fmt(e.kids[1]) \o <<" ">>
               \o Expr_fmt(e.kids[2]) \o <<")">>
      [] OTHER ->
           <<"(", "g", "r", "o", "u", "p", " ">> \o Expr_fmt(e.kids[1]) \o <<")">>

----------------------------------------------------------------------------
(* Evaluator (interpreter.rs).  A Value is a record of one shape; eval      *)
(* gives [ok, val, msg]: ok with the Value returned, or not ok with the     *)
(* message of the panic! that unwound it.                                   *)

Value_Nil == [kind |-> "Nil", num |-> <<0, 0>>, bool |-> FALSE, str |-> <<>>]

Value_Number(n) == [kind |-> "Number", num |-> n, bool |-> FALSE, str |-> <<>>]

Value_Boolean(b) == [kind |-> "Boolean", num |-> <<0, 0>>, bool |-> b, str |-> <<>>]

Value_String(s) == [kind |-> "String", num |-> <<0, 0>>, bool |-> FALSE, str |-> s]

NoValue == [kind |-> "None", num |-> <<0, 0>>, bool |-> FALSE, str |-> <<>>]

Returned(v) == [ok |-> TRUE, val |-> v, msg |-> ""]

EvalPanic(msg) == [ok |-> FALSE, val |-> NoValue, msg |-> msg]

eval_literal(literal) ==
    CASE literal.kind = "Nil" -> Value_Nil
      [] literal.kind = "True" -> Value_Boolean(TRUE)
      [] literal.kind = "False" -> Value_Boolean(FALSE)
      [] literal.kind = "Number" -> Value_Number(literal.num)
      [] OTHER -> Value_String(literal.str)

\* minus giving Nil, and no panic, for a Value that is not a Number.
minus_mut(v) ==
    IF v.kind = "Number" THEN Returned(Value_Number(f64_neg(v.num)))
    ELSE Returned(Value_Nil)

minus(v) ==
    IF v.kind = "Number" THEN Returned(Value_Number(f64_neg(v.num)))
    ELSE EvalPanic("Tried to invert sign of a non-numeric value")

\* negate with Nil taken as truthy.
negate_mut(v) ==
    IF v.kind = "Boolean" /\ ~v.bool THEN Returned(Value_Boolean(TRUE))
    ELSE Returned(Value_Boolean(FALSE))

negate(v) ==
    IF v.kind = "Boolean" /\ ~v.bool THEN Returned(Value_Boolean(TRUE))
    ELSE IF v.kind = "Nil" THEN Returned(Value_Boolean(TRUE))
    ELSE Returned(Value_Boolean(FALSE))

\* The arm of eval_unary for op, on what eval(e) gave: a panic in eval(e)
\* unwinds eval_unary too.
unary_on(op, r) ==
    IF ~r.ok THEN r
    ELSE IF op = "Minus" THEN minus(r.val)
    ELSE negate(r.val)

\* Every arm is Value::Nil; e1 and e2 are not evaluated.
eval_binary(op, e1, e2) == Returned(Value_Nil)

RECURSIVE eval(_), eval_unary(_, _)

eval_unary(op, e) == unary_on(op, eval(e))

\* eval with the Grouping arm giving Nil.
eval_mut(exp) ==
    CASE exp.node = "Literal" -> Returned(eval_literal(exp.lit))
      [] exp.node = "Grouping" -> Returned(Value_Nil)
      [] exp.node = "Unary" -> eval_unary(exp.op, exp.kids[1])
      [] exp.node = "Binary" -> eval_binary(exp.op, exp.kids[1], exp.kids[2])
      [] OTHER -> Returned(Value_Nil)

eval(exp) ==
    CASE exp.node = "Literal" -> Returned(eval_literal(exp.lit))
      [] exp.node = "Grouping" -> eval(exp.kids[1])
      [] exp.node = "Unary" -> eval_unary(exp.op, exp.kids[1])
      [] exp.node = "Binary" -> eval_binary(exp.op, exp.kids[1], exp.kids[2])
      [] OTHER -> Returned(Value_Nil)

----------------------------------------------------------------------------
(* Sources *)

ScanAlphabet == {"1", ".", "!", "=", "\"", "a", "\n", "/", "#", "U+00E9", "U+20AC"}

ParseAlphabet == {"1", "+", "*", "-", "(", ")", "<", "!", "="}

Strings(alphabet, n) == UNION {[1..k -> alphabet] : k \in 0..n}

Src_Expression1 == <<"3", " ", "+", " ", "7", " ", "*", " ", "(", "4", "8", " ", "-", " ", "6", ")">>

Src_Munch == <<"!", "=", "=", "<", ">", "=", "=", "=", "=">>

Src_Operators == <<"(", "/", "*", ")", "{", " ", ";", "+", "\t", " ", "-", "}", "!", "(", "{", ".", ",", ".", "!", "=", "<", ">", "=", "=", "=", "=", "!", "}", ")">>

Src_Number1 == <<"1", "2", "3", "4", " ", "+", " ", "3", "7", ".", "5", "2">>

Src_Keywords1 == <<"c", "l", "a", "s", "s", " ", "f", "o", "r", " ", "l", "u", "n", "c", "h">>

Src_Identifiers1 == <<"x", " ", "=", " ", "y", " ", "+", " ", "3", "7", ";">>

Src_String1 == <<"\"", "a", "b", "s", "c", "o", "n", "d", "m", "a", "l", "\"">>

NamedSources ==
    {Src_Expression1, Src_Munch, Src_Operators, Src_Number1, Src_Keywords1, Src_Identifiers1, Src_String1,
     <<"1", "2", ".", "5">>,
     <<"1", "2", ".">>,
     <<"1", "2", ".", "x", "5">>,
     <<"1", ".", "2", "5">>,
     <<"1", "2", ".", "5", "0", "+", "1">>,
     <<"1", ".", "5", ".", "2">>,
     <<"<", "=", ">">>,
     <<">", "=", "<">>,
     <<">", " ", "=">>,
     <<"a", "<", "b">>,
     <<"!", ">">>,
     <<"a", " ", "\"", "b", "c">>,
     <<"(", "\"", "a", "\n">>,
     <<"\"", "U+00E9">>,
     <<"1", "#", "+">>,
     <<"a", "@", " ", "b">>,
     <<"U+20AC", "+">>,
     <<"U+20AC", " ", " ", "a", " ">>,
     <<"U+20AC", " ", " ", "i", "f", " ">>,
     <<"c", "l", "a", "s", "s", "y">>,
     <<"c", "l", "a", "s", "s", "1">>,
     <<"o", "r", "_", "x">>,
     <<"O", "r">>,
     <<"n", "i", "l", " ", "n", "i", "l", "s">>,
     <<"t", "r", "u", "e", "=", "=", "f", "a", "l", "s", "e">>,
     <<"a", "n", "d">>,
     <<"c", "l", "a", "s", "s">>,
     <<"e", "l", "s", "e">>,
     <<"f", "a", "l", "s", "e">>,
     <<"f", "u", "n">>,
     <<"f", "o", "r">>,
     <<"i", "f">>,
     <<"n", "i", "l">>,
     <<"o", "r">>,
     <<"p", "r", "i", "n", "t">>,
     <<"r", "e", "t", "u", "r", "n">>,
     <<"s", "u", "p", "e", "r">>,
     <<"t", "h", "i", "s">>,
     <<"t", "r", "u", "e">>,
     <<"v", "a", "r">>,
     <<"w", "h", "i", "l", "e">>,
     <<"1", " ", "2">>,
     <<"1", " ", ")">>,
     <<"(", "1">>,
     <<"(", "1", " ", "2", ")">>,
     <<"-", "1", " ", "*", " ", "2">>,
     <<"!", "-", "1">>,
     <<"1", " ", "-", " ", "2", " ", "-", " ", "3">>,
     <<"1", " ", "/", " ", "2", " ", "*", " ", "3">>,
     <<"1", " ", "<", " ", "2", " ", "=", "=", " ", "3", " ", ">", " ", "4">>,
     <<"\"", "s", "\"", " ", "+", " ", "n", "i", "l">>,
     <<"/", "/", " ", "c", "\n", "1">>,
     <<"1", " ", "/", " ", "2", " ", "/", "/", " ", "x">>,
     <<"\"", "a", "\n", "b", "\"", " ", "1", "\n", "2">>,
     <<"U+00E9", "a", " ", "\"", "1", "a", "\"">>,
     <<"\"", "a", "\"", "\"", "\"", "1">>,
     <<"1", "<", "2", ">", "=", "3">>,
     <<"1", "=", "=", "2", "!", "=", "3">>,
     <<"n", "i", "l", "!", "=", "t", "r", "u", "e", "=", "=", "\"", "a", "\"">>,
     <<"!", "!", "t", "r", "u", "e">>,
     <<"-", "-", "-", "-", "2">>,
     <<"!", "n", "i", "l", "=", "=", "1">>}

Sources ==
    Strings(ScanAlphabet, MaxLen) \cup Strings(ParseAlphabet, MaxParseLen)
        \cup NamedSources

----------------------------------------------------------------------------
(* The state machine.  pc is "new" after Parser::new / Scanner::new,        *)
(* "scanning" inside the loop of scan_tokens, "scanned" when scan_tokens    *)
(* has returned, "parsed" when parse_expression has returned an Expr,       *)
(* "panic_scan" when a panic has unwound scan_tokens and "panic_parse" when *)
(* one has unwound parse_expression.                                        *)

NoPanic == [msg |-> "", line |-> <<>>]

\* No text has been formatted: every text of Display has a character.
NoText == <<>>

\* A panic!(msg): the payload is the message; no line goes with it.
Panic(msg) == [msg |-> msg, line |-> <<>>]

Self == [source |-> source, start |-> start, current |-> current,
         line |-> line, tokens |-> tokens, had_error |-> had_error,
         panic |-> ""]

Init ==
    /\ source \in Sources
    /\ start = 0
    /\ current = 0
    /\ line = 1
    /\ tokens = <<>>
    /\ had_error = FALSE
    /\ p_current = 0
    /\ result = NoExpr
    /\ pc = "new"
    /\ calls = 0
    /\ panic_msg = NoPanic
    /\ out_value = NoValue
    /\ out_text = NoText

\* scan_tokens is entered: by Parser::parse, or by main's run on a Scanner.
ScanTokensCall ==
    /\ pc \in {"new", "scanned", "parsed"}
    /\ calls < MaxCalls
    /\ calls' = calls + 1
    /\ pc' = "scanning"
    /\ UNCHANGED <<source, start, current, line, tokens, had_error,
                   p_current, result, panic_msg, out_value, out_text>>

\* An iteration of the loop that sets start and consumes nothing.
ScanToken_mut ==
    /\ pc = "scanning"
    /\ ~is_at_end(Self)
    /\ start' = current
    /\ UNCHANGED <<source, current, line, tokens, had_error, pc, panic_msg,
                   p_current, result, calls, out_value, out_text>>

\* One iteration of the loop of scan_tokens.
ScanToken ==
    /\ pc = "scanning"
    /\ ~is_at_end(Self)
    /\ \E s \in {scan_token([Self EXCEPT !.start = current])} :
           /\ start' = s.start
           /\ current' = s.current
           /\ line' = s.line
           /\ tokens' = s.tokens
           /\ had_error' = s.had_error
           /\ pc' = IF s.panic # "" THEN "panic_scan" ELSE "scanning"
           /\ panic_msg' = IF s.panic # "" THEN Panic(s.panic) ELSE panic_msg
    /\ UNCHANGED <<source, p_current, result, calls, out_value, out_text>>

\* scan_tokens returning without its push of Eof.
ScanEof_mut ==
    /\ pc = "scanning"
    /\ is_at_end(Self)
    /\ pc' = "scanned"
    /\ UNCHANGED <<source, start, current, line, tokens, had_error,
                   p_current, result, calls, panic_msg, out_value, out_text>>

\* The loop of scan_tokens ends and Eof is pushed.
ScanEof ==
    /\ pc = "scanning"
    /\ is_at_end(Self)
    /\ tokens' = Append(tokens, Token_eof(line))
    /\ pc' = "scanned"
    /\ UNCHANGED <<source, start, current, line, had_error,
                   p_current, result, calls, panic_msg, out_value, out_text>>

\* parse_expression has returned r, or panicked with r.msg.
ParseReturns(r) ==
    /\ p_current' = r.current
    /\ result' = r.expr
    /\ pc' = IF r.ok THEN "parsed" ELSE "panic_parse"
    /\ panic_msg' = IF r.ok THEN panic_msg ELSE Panic(r.msg)

\* r, made a panic when a token other than Eof is left after the Expr.
RequireEof(toks, r) ==
    IF r.ok /\ ~Parser_is_at_end(toks, r.current)
    THEN ParsePanic(r.current, "Expect end of expression")
    ELSE r

\* Parser::parse requiring Eof after the root expression.
ParseExpression_mut ==
    /\ pc = "scanned"
    /\ ParseReturns(RequireEof(tokens, parse_expression(tokens, p_current)))
    /\ UNCHANGED <<source, start, current, line, tokens, had_error, calls,
                   out_value, out_text>>

\* Parser::parse after its call of scan_tokens: parse_expression.
ParseExpression ==
    /\ pc = "scanned"
    /\ ParseReturns(parse_expression(tokens, p_current))
    /\ UNCHANGED <<source, start, current, line, tokens, had_error, calls,
                   out_value, out_text>>

Next == ScanTokensCall \/ ScanToken \/ ScanEof \/ ParseExpression

Spec == Init /\ [][Next]_vars

\* The Scanner alone, as main's run drives it: scan_tokens on a source.
ScanInit ==
    /\ Init
    /\ source \in Strings(ScanAlphabet, MaxScanLen) \cup NamedSources

ScanNext == ScanTokensCall \/ ScanToken \/ ScanEof

\* scan_tokens is a loop that runs to its end once entered: an iteration that
\* can be taken is taken, and so is the push of Eof after the loop.
LiveSpec ==
    ScanInit /\ [][ScanNext]_vars /\ WF_vars(ScanToken) /\ WF_vars(ScanEof)

----------------------------------------------------------------------------
(* The evaluator and Display on an Expr a caller has built: pc is "built"   *)
(* when the Expr is there, "evaluated" when eval has returned a Value and   *)
(* "panic_eval" when a panic has unwound it.                                *)

Literals ==
    {Expr_nil_literal, Expr_true_literal, Expr_false_literal,
     Expr_number_literal(<<0, 0>>), Expr_number_literal(<<7, 0>>),
     Expr_number_literal(<<4567, 2>>),
     Expr_string_literal(<<>>), Expr_string_literal(<<"0">>)}

UnOps == {"Minus", "Not"}

BinOps == {"Equal", "NotEqual", "Lt", "LtEqual", "Gt", "GtEqual",
           "Plus", "Minus", "Mult", "Div"}

Binaries == {Expr_binary(op, e1, e2) : op \in BinOps, e1 \in Literals, e2 \in Literals}

\* The tree test_simple_expression_1 expects of "3 + 7 * (48 - 6)".
Expression1Tree ==
    Expr_binary("Plus", Expr_number_literal(<<3, 0>>),
        Expr_binary("Mult", Expr_number_literal(<<7, 0>>),
            Expr_group(Expr_binary("Minus", Expr_number_literal(<<48, 0>>),
                                            Expr_number_literal(<<6, 0>>)))))

\* The tree of test_ast_display.
DisplayTestTree ==
    Expr_binary("Mult", Expr_unary("Minus", Expr_number_literal(<<123, 0>>)),
                        Expr_group(Expr_number_literal(<<4567, 2>>)))

NamedExprs ==
    {Expression1Tree, DisplayTestTree,
     Expr_number_literal(<<4, 0>>), Expr_number_literal(<<12345, 2>>),
     Expr_number_literal(<<5, 3>>), Expr_number_literal(<<-25, 1>>),
     Expr_string_literal(<<"t", "h", "i", "s", " ", "i", "s", " ", "a", " ",
                           "s", "t", "r", "i", "n", "g">>),
     Expr_binary("Div", Expr_number_literal(<<7, 0>>),
                        Expr_unary("Minus", Expr_nil_literal)),
     Expr_binary("Equal", Expr_group(Expr_nil_literal),
                          Expr_unary("Not", Expr_true_literal))}

\* The Exprs of es under up to n Unary or Grouping nodes.
RECURSIVE Wrapped(_, _)
Wrapped(es, n) ==
    IF n = 0 THEN es
    ELSE LET w == Wrapped(es, n - 1)
         IN  w \cup {Expr_group(e) : e \in w}
               \cup {Expr_unary(op, e) : op \in UnOps, e \in w}

Exprs == Wrapped(Literals \cup Binaries \cup NamedExprs, MaxWrap)

EvalInit ==
    /\ source = <<>>
    /\ start = 0
    /\ current = 0
    /\ line = 1
    /\ tokens = <<>>
    /\ had_error = FALSE
    /\ p_current = 0
    /\ result \in Exprs
    /\ pc = "built"
    /\ calls = 0
    /\ panic_msg = NoPanic
    /\ out_value = NoValue
    /\ out_text = NoText

\* eval has returned r.val, or panicked with r.msg.
EvalReturns(r) ==
    /\ out_value' = r.val
    /\ pc' = IF r.ok THEN "evaluated" ELSE "panic_eval"
    /\ panic_msg' = IF r.ok THEN panic_msg ELSE Panic(r.msg)

\* eval(&exp)
Eval ==
    /\ pc = "built"
    /\ EvalReturns(eval(result))
    /\ UNCHANGED <<source, start, current, line, tokens, had_error,
                   p_current, result, calls, out_text>>

\* format!("{}", exp)
Display ==
    /\ pc \in {"built", "evaluated"}
    /\ out_text = NoText
    /\ out_text' = Expr_fmt(result)
    /\ UNCHANGED <<source, start, current, line, tokens, had_error,
                   p_current, result, pc, calls, panic_msg, out_value>>

EvalNext == Eval \/ Display

EvalSpec == EvalInit /\ [][EvalNext]_vars

----------------------------------------------------------------------------
(* Properties *)

Kinds(toks) == [i \in 1..Len(toks) |-> toks[i].tok_type]

\* The first call of scan_tokens has returned.
FirstScanReturned == calls = 1 /\ pc \in {"scanned", "parsed", "panic_parse"}

C1_WitnessEmpty == calls = 1 /\ pc = "scanned" /\ source = <<>> /\ Len(tokens) = 1

\* The level of an Expr in the ladder equality < comparison < term < factor
\* < unary < primary.
Level(e) ==
    CASE e.node = "Binary" /\ e.op \in {"Equal", "NotEqual"} -> 1
      [] e.node = "Binary" /\ e.op \in {"Lt", "LtEqual", "Gt", "GtEqual"} -> 2
      [] e.node = "Binary" /\ e.op \in {"Plus", "Minus"} -> 3
      [] e.node = "Binary" /\ e.op \in {"Mult", "Div"} -> 4
      [] e.node = "Unary" -> 5
      [] OTHER -> 6

\* Below a Binary node the left operand is of its level or higher and the right
\* operand of a higher level; below a Unary node the operand is unary or primary.
RECURSIVE Ladder(_)
Ladder(e) ==
    /\ e.node = "Binary" =>
           Level(e.kids[1]) >= Level(e) /\ Level(e.kids[2]) > Level(e)
    /\ e.node = "Unary" => Level(e.kids[1]) >= 5
    /\ \A i \in 1..Len(e.kids) : Ladder(e.kids[i])

RECURSIVE Groupings(_)
Groupings(e) ==
    (IF e.node = "Grouping" THEN 1 ELSE 0)
        + (IF Len(e.kids) >= 1 THEN Groupings(e.kids[1]) ELSE 0)
        + (IF Len(e.kids) >= 2 THEN Groupings(e.kids[2]) ELSE 0)

LeftParensConsumed ==
    Cardinality({i \in 1..p_current : tokens[i].tok_type = "LeftParen"})

\* C2: the Expr parsed obeys the precedence ladder, every parenthesis consumed
\* is a Grouping node, and "3 + 7 * (48 - 6)" parses to
\* Binary(Plus, 3, Binary(Mult, 7, Grouping(Binary(Minus, 48, 6)))).
C2_PrecedenceLadder ==
    (calls = 1 /\ pc = "parsed") =>
        /\ Ladder(result)
        /\ Groupings(result) = LeftParensConsumed
        /\ source = Src_Expression1 => result = Expression1Tree

C2_Witness ==
    /\ calls = 1
    /\ pc = "parsed"
    /\ source = Src_Expression1
    /\ result.node = "Binary"
    /\ result.kids[2].node = "Binary"
    /\ Groupings(result) = 1

\* C3 as stated: scanning "!==<>====" gives the kinds BangEqual, Equal, Less,
\* Greater, EqualEqual, Equal, Eof and leaves had_error false.
C3_MunchExampleAsStated ==
    (FirstScanReturned /\ source = Src_Munch) =>
        /\ Kinds(tokens) = <<"BangEqual", "Equal", "Less", "Greater",
                             "EqualEqual", "Equal", "Eof">>
        /\ ~had_error

\* C3 (amended): scanning "!==<>====" gives the kinds BangEqual, Equal, Less,
\* GreaterEqual, EqualEqual, Equal, Eof and leaves had_error false: the '>' is
\* followed by '=' and takes it.
C3_MunchExample ==
    (FirstScanReturned /\ source = Src_Munch) =>
        /\ Kinds(tokens) = <<"BangEqual", "Equal", "Less", "GreaterEqual",
                             "EqualEqual", "Equal", "Eof">>
        /\ ~had_error

C3_Witness == calls = 1 /\ pc = "scanned" /\ source = Src_Munch /\ Len(tokens) = 7

\* The character scan_token is about to read, when pc = "scanning".
AtChar == source[current + 1]

\* scan_token is called and reads a character of the set cs.
ScanTokenOn(cs) == ScanToken /\ in_bounds(Self, current) /\ AtChar \in cs

TwoCharKind(c) == CASE c = "!" -> "BangEqual" [] c = "=" -> "EqualEqual"
                    [] c = ">" -> "GreaterEqual" [] OTHER -> "LessEqual"

OneCharKind(c) == CASE c = "!" -> "Bang" [] c = "=" -> "Equal"
                    [] c = ">" -> "Greater" [] OTHER -> "Less"

\* The character after the one scan_token reads is '='.
EqualFollows == current + 2 <= Len(source) /\ source[current + 2] = "="

\* C4: when scan_token reads '!', '=', '>' or '<' it emits one token: the
\* two-character kind, consuming both characters, if '=' follows; the
\* single-character kind, consuming one character, otherwise.
C4_TwoCharOperators ==
    [][ScanTokenOn({"!", "=", ">", "<"}) =>
          /\ Len(tokens') = Len(tokens) + 1
          /\ SubSeq(tokens', 1, Len(tokens)) = tokens
          /\ tokens'[Len(tokens')].tok_type =
                 IF EqualFollows THEN TwoCharKind(AtChar) ELSE OneCharKind(AtChar)
          /\ current' = current + (IF EqualFollows THEN 2 ELSE 1)]_vars

\* s is digits, a dot, digits.
IsDecimalText(s) ==
    /\ Cardinality(dot_positions(s)) = 1
    /\ LET d == CHOOSE i \in dot_positions(s) : TRUE
       IN  /\ 1 < d
           /\ d < Len(s)
           /\ all_digits(SubSeq(s, 1, d - 1))
           /\ all_digits(SubSeq(s, d + 1, Len(s)))

DecimalValue(s) ==
    LET d == CHOOSE i \in dot_positions(s) : TRUE
    IN  normalize(digits_value(SubSeq(s, 1, d - 1) \o SubSeq(s, d + 1, Len(s)), 0),
                  Len(s) - d)

\* C5: a source that is digits, a dot, digits scans to one Number token whose
\* lexeme is the whole text and whose payload is its decimal value, and to no
\* Dot token.
C5_DecimalIsOneNumber ==
    (FirstScanReturned /\ IsDecimalText(source)) =>
        /\ Kinds(tokens) = <<"Number", "Eof">>
        /\ tokens[1].lexeme = source
        /\ tokens[1].literal.num = DecimalValue(source)

\* C6: a dot after a digit run that is not followed by a digit is never
\* consumed into the Number token: no Number lexeme ends with the dot.
C6_DotNeedsDigit ==
    \A i \in 1..Len(tokens) :
        tokens[i].tok_type = "Number" =>
            tokens[i].lexeme[Len(tokens[i].lexeme)] # "."

\* No '"' follows the character scan_token is about to read.
NoClosingQuote == \A j \in (current + 2)..Len(source) : source[j] # "\""

\* C7: when the input ends before the closing quote of the string literal
\* scan_token starts, the scanner sets had_error, emits no token, keeps the
\* tokens emitted before, and is at the end of the input, where scan_tokens
\* pushes Eof.
C7_UnterminatedString ==
    [][(ScanTokenOn({"\""}) /\ NoClosingQuote) =>
          /\ had_error'
          /\ tokens' = tokens
          /\ pc' = "scanning"
          /\ current' >= byte_len(source)]_vars

StartsToken(c) ==
    \/ c \in {"(", ")", "{", "}", ",", ".", "-", "+", ";", "/", "*",
              "!", "=", ">", "<", "\""}
    \/ is_digit(c)
    \/ is_alphabetic(c)

\* The source with the character scan_token is about to read made a blank.
Blanked == [Self EXCEPT !.source = [source EXCEPT ![current + 1] = " "]]

\* C8: when scan_token reads a character that starts no token and is not
\* whitespace, the scan sets had_error and goes on to its end, and its tokens
\* are those it would give were that character a blank.
C8_ErrorCharSkipped ==
    (/\ pc = "scanning"
     /\ ~is_at_end(Self)
     /\ in_bounds(Self, current)
     /\ ~StartsToken(AtChar)
     /\ ~is_whitespace(AtChar)) =>
        /\ scan_tokens(Self).panic = ""
        /\ scan_tokens(Self).had_error
        /\ scan_tokens(Self).tokens = scan_tokens(Blanked).tokens

\* C9: a parse that fails returns no Expr and its failure carries a message and
\* the line of the offending token.
C9_ParseFailureCarriesLine ==
    pc = "panic_parse" =>
        /\ result = NoExpr
        /\ panic_msg.msg # ""
        /\ panic_msg.line = <<Parser_peek(tokens, p_current).line>>

\* The longest run of alphabetic characters of s from position i on.
RECURSIVE AlphabeticRun(_, _)
AlphabeticRun(s, i) ==
    IF i <= Len(s) /\ is_alphabetic(s[i])
    THEN <<s[i]>> \o AlphabeticRun(s, i + 1)
    ELSE <<>>

\* C10: when scan_token reads an alphabetic character it consumes the maximal
\* alphabetic run and emits the keyword token of the run, with no payload, if
\* the run is one of the 16 reserved words, and else an Identifier token whose
\* payload is the run.
C10_IdentifierOrKeyword ==
    [][ScanTokenOn(Letters \cup UpperLetters \cup {"U+00E9"}) =>
          LET run == AlphabeticRun(source, current + 1)
          IN  /\ Cardinality(DOMAIN reserved_words) = 16
              /\ current' = current + Len(run)
              /\ tokens' = Append(tokens,
                     IF run \in DOMAIN reserved_words
                     THEN Token_new(reserved_words[run], run, line)
                     ELSE Token_identifier(run, line))]_vars

\* The position (1-based) of the first '"' after the one scan_token is about
\* to read, 0 when there is none.
ClosingQuote ==
    IF NoClosingQuote THEN 0
    ELSE CHOOSE j \in (current + 2)..Len(source) :
             /\ source[j] = "\""
             /\ \A k \in (current + 2)..(j - 1) : source[k] # "\""

\* C11: when scan_token reads the opening quote of a terminated string literal
\* it emits exactly one String token whose payload and lexeme are both the
\* characters strictly between that quote and the next '"', and the scan
\* resumes at the character after the closing quote.
C11_StringLiteral ==
    [][(ScanTokenOn({"\""}) /\ ~NoClosingQuote) =>
          LET content == SubSeq(source, current + 2, ClosingQuote - 1)
          IN  /\ pc' = "scanning"
              /\ Len(tokens') = Len(tokens) + 1
              /\ SubSeq(tokens', 1, Len(tokens)) = tokens
              /\ tokens'[Len(tokens')].tok_type = "String"
              /\ tokens'[Len(tokens')].lexeme = content
              /\ tokens'[Len(tokens')].literal.kind = "String"
              /\ tokens'[Len(tokens')].literal.str = content
              /\ current' = ClosingQuote]_vars

\* The first call of parse has returned an Expr or panicked in the parser.
ParseEnded == calls = 1 /\ pc \in {"parsed", "panic_parse"}

LiteralKinds == {"Number", "String", "True", "False", "Nil"}

\* The Literal node of a token of one of LiteralKinds.
LiteralOf(tok) ==
    CASE tok.tok_type = "Number" -> Expr_number_literal(tok.literal.num)
      [] tok.tok_type = "String" -> Expr_string_literal(tok.literal.str)
      [] tok.tok_type = "True" -> Expr_true_literal
      [] tok.tok_type = "False" -> Expr_false_literal
      [] OTHER -> Expr_nil_literal

\* The level of an operator token in the ladder, 0 for any other token.
TokenLevel(typ) ==
    CASE typ \in {"EqualEqual", "BangEqual"} -> 1
      [] typ \in {"Less", "LessEqual", "Greater", "GreaterEqual"} -> 2
      [] typ \in {"Plus", "Minus"} -> 3
      [] typ \in {"Slash", "Star"} -> 4
      [] OTHER -> 0

\* The tokens are a op1 b op2 c Eof with op1 and op2 of one level.
SameLevelChain ==
    /\ Len(tokens) = 6
    /\ \A i \in {1, 3, 5} : tokens[i].tok_type \in LiteralKinds
    /\ TokenLevel(tokens[2].tok_type) > 0
    /\ TokenLevel(tokens[2].tok_type) = TokenLevel(tokens[4].tok_type)

\* C12: "a op1 b op2 c" with op1 and op2 of one level parses to
\* Binary(op2, Binary(op1, a, b), c), and not to Binary(op1, a, Binary(op2, b, c)).
C12_LeftAssociative ==
    (ParseEnded /\ SameLevelChain) =>
        /\ pc = "parsed"
        /\ result =
               Expr_binary(BinOp_from_token_type(tokens[4].tok_type),
                   Expr_binary(BinOp_from_token_type(tokens[2].tok_type),
                               LiteralOf(tokens[1]), LiteralOf(tokens[3])),
                   LiteralOf(tokens[5]))
        /\ result #
               Expr_binary(BinOp_from_token_type(tokens[2].tok_type),
                   LiteralOf(tokens[1]),
                   Expr_binary(BinOp_from_token_type(tokens[4].tok_type),
                               LiteralOf(tokens[3]), LiteralOf(tokens[5])))

C12_Witness ==
    /\ calls = 1
    /\ pc = "parsed"
    /\ SameLevelChain
    /\ tokens[2].tok_type = "Slash"
    /\ tokens[4].tok_type = "Star"
    /\ result.kids[1].node = "Binary"

\* The number of tokens from position i on that are '!' or '-'.
RECURSIVE PrefixRun(_, _)
PrefixRun(toks, i) ==
    IF i <= Len(toks) /\ toks[i].tok_type \in {"Bang", "Minus"}
    THEN 1 + PrefixRun(toks, i + 1)
    ELSE 0

\* Unary nodes for the tokens i..(j - 1), outermost first, around e.
RECURSIVE Nested(_, _, _, _)
Nested(toks, i, j, e) ==
    IF i >= j THEN e
    ELSE Expr_unary(UnOp_from_token_type(toks[i].tok_type),
                    Nested(toks, i + 1, j, e))

\* The tokens are n >= 1 prefix operators, a literal, Eof.
PrefixedPrimary ==
    /\ PrefixRun(tokens, 1) >= 1
    /\ Len(tokens) = PrefixRun(tokens, 1) + 2
    /\ tokens[Len(tokens) - 1].tok_type \in LiteralKinds

\* The tokens are a prefix operator, a literal, a binary operator, a literal, Eof.
PrefixedLeftOperand ==
    /\ Len(tokens) = 5
    /\ tokens[1].tok_type \in {"Bang", "Minus"}
    /\ tokens[2].tok_type \in LiteralKinds
    /\ TokenLevel(tokens[3].tok_type) > 0
    /\ tokens[4].tok_type \in LiteralKinds

\* C13: n >= 1 prefix operators before a primary parse to n nested Unary
\* nodes, outermost first in source order, and a unary expression binds
\* tighter than a binary operator: "-a * b" is Binary(Mult, Unary(Minus, a), b).
C13_UnaryNesting ==
    /\ (ParseEnded /\ PrefixedPrimary) =>
           /\ pc = "parsed"
           /\ result = Nested(tokens, 1, Len(tokens) - 1,
                               LiteralOf(tokens[Len(tokens) - 1]))
    /\ (ParseEnded /\ PrefixedLeftOperand) =>
           /\ pc = "parsed"
           /\ result =
                  Expr_binary(BinOp_from_token_type(tokens[3].tok_type),
                      Expr_unary(UnOp_from_token_type(tokens[1].tok_type),
                                 LiteralOf(tokens[2])),
                      LiteralOf(tokens[4]))

C13_Witness ==
    /\ calls = 1
    /\ pc = "parsed"
    /\ PrefixedPrimary
    /\ PrefixRun(tokens, 1) = 3
    /\ result.node = "Unary"
    /\ result.kids[1].node = "Unary"
    /\ result.kids[1].kids[1].node = "Unary"

C13_WitnessBinds ==
    /\ calls = 1
    /\ pc = "parsed"
    /\ PrefixedLeftOperand
    /\ tokens[1].tok_type = "Minus"
    /\ tokens[3].tok_type = "Star"
    /\ result.node = "Binary"

\* eval has been called on the Expr and has returned or panicked.
EvalEnded == pc \in {"evaluated", "panic_eval"}

\* Both operands of the Binary node evaluate to Values of the kinds ks.
OperandsAre(ks) ==
    /\ result.node = "Binary"
    /\ \A i \in {1, 2} :
           eval(result.kids[i]).ok /\ eval(result.kids[i]).val.kind \in ks

\* The number of an f64 as <<m, k>>: -0.0 is the number 0.
Real(n) == IF n = NegZero THEN <<0, 0>> ELSE n

Sum(a, b) ==
    LET k == IF a[2] > b[2] THEN a[2] ELSE b[2]
    IN  normalize(a[1] * pow10(k - a[2]) + b[1] * pow10(k - b[2]), k)

Product(a, b) == normalize(a[1] * b[1], a[2] + b[2])

\* r is the result of applying op to the numbers a and b; of a division by
\* zero (an infinity or NaN) nothing is asked here.
IsArithmeticResult(op, a, b, r) ==
    CASE op = "Plus" -> Real(r) = Sum(Real(a), Real(b))
      [] op = "Minus" -> Real(r) = Sum(Real(a), Real(f64_neg(b)))
      [] op = "Mult" -> Real(r) = Product(Real(a), Real(b))
      [] OTHER -> Real(b)[1] # 0 => Product(Real(r), Real(b)) = Real(a)

\* C14: eval of a Binary node with operator Plus, Minus, Mult or Div whose
\* operands evaluate to Numbers yields the Number that is the arithmetic
\* result, and eval of the tree of "3 + 7 * (48 - 6)" yields Number(297).
C14_BinaryArithmetic ==
    /\ (EvalEnded /\ OperandsAre({"Number"})
            /\ result.op \in {"Plus", "Minus", "Mult", "Div"}) =>
           /\ pc = "evaluated"
           /\ out_value.kind = "Number"
           /\ IsArithmeticResult(result.op, eval(result.kids[1]).val.num,
                                 eval(result.kids[2]).val.num, out_value.num)
    /\ (EvalEnded /\ result = Expression1Tree) =>
           /\ pc = "evaluated"
           /\ out_value = Value_Number(<<297, 0>>)

\* Two Values have the same runtime kind and equal content.
SameValue(a, b) ==
    /\ a.kind = b.kind
    /\ a.kind = "Number" => Real(a.num) = Real(b.num)
    /\ a.kind = "Boolean" => a.bool = b.bool
    /\ a.kind = "String" => a.str = b.str

\* C15: eval of Binary(Equal, a, b) yields Boolean(true) exactly when the two
\* operand values have the same kind and equal content and Boolean(false)
\* otherwise, NotEqual yields the negation, and neither raises an error.
C15_Equality ==
    (EvalEnded /\ OperandsAre({"Nil", "Number", "Boolean", "String"})
         /\ result.op \in {"Equal", "NotEqual"}) =>
        /\ pc = "evaluated"
        /\ out_value =
               Value_Boolean((result.op = "Equal") <=>
                                 SameValue(eval(result.kids[1]).val,
                                           eval(result.kids[2]).val))

\* The operand of the Unary node with operator op evaluates to a Value.
UnaryOperandEvaluates(op) ==
    /\ result.node = "Unary"
    /\ result.op = op
    /\ eval(result.kids[1]).ok

\* C16: eval of Unary(Not, e), where e evaluates to v, yields Boolean(true)
\* if v is Boolean(false) or Nil and Boolean(false) for every other value,
\* and raises no runtime error of its own.
C16_Truthiness ==
    (EvalEnded /\ UnaryOperandEvaluates("Not")) =>
        LET v == eval(result.kids[1]).val
        IN  /\ pc = "evaluated"
            /\ out_value =
                   Value_Boolean(v = Value_Boolean(FALSE) \/ v = Value_Nil)

C16_Witness ==
    /\ pc = "evaluated"
    /\ result = Expr_unary("Not", Expr_nil_literal)
    /\ out_value = Value_Boolean(TRUE)

C16_WitnessTruthy ==
    /\ pc = "evaluated"
    /\ result \in {Expr_unary("Not", Expr_number_literal(<<0, 0>>)),
                   Expr_unary("Not", Expr_string_literal(<<>>))}
    /\ out_value = Value_Boolean(FALSE)

\* C17: eval of Unary(Minus, e) yields Number(-n) when e evaluates to
\* Number(n), and fails, returning no Value, when e evaluates to Nil, a
\* Boolean or a String.
C17_Negate ==
    (EvalEnded /\ UnaryOperandEvaluates("Minus")) =>
        LET v == eval(result.kids[1]).val
        IN  IF v.kind = "Number"
            THEN /\ pc = "evaluated"
                 /\ out_value.kind = "Number"
                 /\ Sum(Real(out_value.num), Real(v.num)) = <<0, 0>>
            ELSE /\ pc = "panic_eval"
                 /\ out_value = NoValue
                 /\ panic_msg.msg # ""

C17_Witness ==
    /\ pc = "panic_eval"
    /\ result = Expr_unary("Minus", Expr_string_literal(<<"0">>))
    /\ out_value = NoValue

C17_WitnessNumber ==
    /\ pc = "evaluated"
    /\ result = Expr_unary("Minus", Expr_number_literal(<<4567, 2>>))
    /\ out_value = Value_Number(<<-4567, 2>>)

\* C18: eval(Grouping(e)) has the outcome of eval(e): the same Value when
\* eval(e) returns one, and a failure exactly when eval(e) fails.
C18_GroupingTransparent ==
    (EvalEnded /\ result.node = "Grouping") =>
        /\ (pc = "evaluated") = eval(result.kids[1]).ok
        /\ out_value = eval(result.kids[1]).val
        /\ pc = "panic_eval" => panic_msg.msg = eval(result.kids[1]).msg

C18_Witness ==
    /\ pc = "evaluated"
    /\ result = Expr_group(Expr_unary("Minus", Expr_number_literal(<<7, 0>>)))
    /\ out_value = Value_Number(<<-7, 0>>)

C18_WitnessFails ==
    /\ pc = "panic_eval"
    /\ result = Expr_group(Expr_unary("Minus", Expr_true_literal))

\* The words of the prefix form.
Neg == <<"n", "e", "g">>

Not == <<"n", "o", "t">>

Group == <<"g", "r", "o", "u", "p">>

\* The infix symbol of a binary operator.
InfixSymbol(op) ==
    CASE op = "Plus" -> <<"+">> [] op = "Minus" -> <<"-">>
      [] op = "Mult" -> <<"*">> [] op = "Div" -> <<"/">>
      [] op = "Lt" -> <<"<">> [] op = "Gt" -> <<">">>
      [] op = "LtEqual" -> <<"<", "=">> [] op = "GtEqual" -> <<">", "=">>
      [] op = "Equal" -> <<"=", "=">> [] OTHER -> <<"!", "=">>

\* The text of a Literal: a string in double quotes, true, false and nil as
\* words, a number in its decimal form.
LiteralText(l) ==
    CASE l.kind = "String" -> <<"\"">> \o l.str \o <<"\"">>
      [] l.kind = "True" -> <<"t", "r", "u", "e">>
      [] l.kind = "False" -> <<"f", "a", "l", "s", "e">>
      [] l.kind = "Nil" -> <<"n", "i", "l">>
      [] OTHER -> f64_fmt(l.num)

\* The fully parenthesised prefix form of an Expr.
RECURSIVE PrefixForm(_)
PrefixForm(e) ==
    CASE e.node = "Literal" -> LiteralText(e.lit)
      [] e.node = "Unary" ->
           <<"(">> \o (IF e.op = "Minus" THEN Neg ELSE Not) \o <<" ">>
               \o PrefixForm(e.kids[1]) \o <<")">>
      [] e.node = "Binary" ->
           <<"(">> \o InfixSymbol(e.op) \o <<" ">> \o PrefixForm(e.kids[1])
               \o <<" ">> \o PrefixForm(e.kids[2]) \o <<")">>
      [] OTHER -> <<"(">> \o Group \o <<" ">> \o PrefixForm(e.kids[1]) \o <<")">>

\* "(* (neg 123) (group 45.67))"
DisplayTestText ==
    <<"(", "*", " ", "(", "n", "e", "g", " ", "1", "2", "3", ")", " ",
      "(", "g", "r", "o", "u", "p", " ", "4", "5", ".", "6", "7", ")", ")">>

\* C19: the text of an Expr is its fully parenthesised prefix form: a Literal
\* as its text, Unary as "(neg e)" or "(not e)", Binary as "(op l r)" with
\* the infix symbol, Grouping as "(group e)"; the tree of test_ast_display
\* renders as "(* (neg 123) (group 45.67))", 4.0 as "4" and 123.45 as "123.45".
C19_Rendering ==
    out_text # NoText =>
        /\ out_text = PrefixForm(result)
        /\ result = DisplayTestTree => out_text = DisplayTestText
        /\ result = Expr_number_literal(<<4, 0>>) => out_text = <<"4">>
        /\ result = Expr_number_literal(<<12345, 2>>) =>
               out_text = <<"1", "2", "3", ".", "4", "5">>

C19_Witness ==
    /\ result = DisplayTestTree
    /\ out_text = DisplayTestText

C19_WitnessNested ==
    /\ result.node = "Unary"
    /\ result.kids[1].node = "Grouping"
    /\ result.kids[1].kids[1].node = "Binary"
    /\ out_text # NoText

\* C20: an error in scanning stops the pipeline: when the scan of a source has
\* set had_error, parse does not build and return an Expr from its tokens.
C20_ScanErrorStopsParse ==
    (pc = "parsed" /\ calls = 1) => ~had_error

\* The tokens parse consumed, with Eof after them.
Consumed == Append(SubSeq(tokens, 1, p_current), Token_eof(1))

\* C21: parse returns the Expr of the first well-formed expression and does
\* not fail when tokens other than Eof remain after it: "1 2" and "1 )" yield
\* Literal 1; the cursor stops at the first token not consumed, the Expr is
\* that of the tokens consumed alone, and Eof is never consumed.
C21_TrailingTokensIgnored ==
    /\ (ParseEnded /\ source \in {<<"1", " ", "2">>, <<"1", " ", ")">>}) =>
           /\ pc = "parsed"
           /\ result = Expr_number_literal(<<1, 0>>)
           /\ p_current = 1
    /\ (calls = 1 /\ pc = "parsed") =>
           /\ p_current < Len(tokens)
           /\ parse_expression(Consumed, 0) = Parsed(result, p_current)

C21_Witness ==
    /\ calls = 1
    /\ pc = "parsed"
    /\ source = <<"1", " ", ")">>
    /\ p_current = 1
    /\ Len(tokens) = 3

C21_WitnessLonger ==
    /\ calls = 1
    /\ pc = "parsed"
    /\ result.node = "Binary"
    /\ p_current + 1 < Len(tokens)

\* The number of newline characters among the first n characters of s.
Newlines(s, n) == Cardinality({i \in 1..n : i <= Len(s) /\ s[i] = "\n"})

\* The tokens a step appends.
NewTokens == SubSeq(tokens', Len(tokens) + 1, Len(tokens'))

\* C22: every token carries line = 1 + the number of newlines the scanner has
\* consumed when the token is created (a String token that of its closing
\* quote, Eof the final line), the line counter is 1 + the number of newlines
\* consumed, and token lines are non-decreasing along the sequence.
C22_TokenLines ==
    /\ [](line = 1 + Newlines(source, current))
    /\ [](\A i \in 1..(Len(tokens) - 1) : tokens[i].line <= tokens[i + 1].line)
    /\ [][\A i \in 1..Len(NewTokens) :
              NewTokens[i].line = 1 + Newlines(source, current')]_vars

C22_Witness ==
    /\ calls = 1
    /\ pc = "scanned"
    /\ source = <<"\"", "a", "\n", "b", "\"", " ", "1", "\n", "2">>
    /\ tokens[1].tok_type = "String"
    /\ tokens[1].line = 2
    /\ tokens[2].line = 2
    /\ tokens[3].line = 3
    /\ tokens[4].tok_type = "Eof"
    /\ tokens[4].line = 3

C22_WitnessComment ==
    /\ calls = 1
    /\ pc = "scanned"
    /\ source = <<"/", "/", " ", "c", "\n", "1">>
    /\ tokens[1].line = 2

\* The character after the one scan_token reads is '/'.
SlashFollows == current + 2 <= Len(source) /\ source[current + 2] = "/"

\* The number of characters before the first newline after position i
\* (1-based), or the length of the source when there is none.
LineEnd(i) ==
    IF \E j \in (i + 1)..Len(source) : source[j] = "\n"
    THEN (CHOOSE j \in (i + 1)..Len(source) :
              /\ source[j] = "\n"
              /\ \A k \in (i + 1)..(j - 1) : source[k] # "\n") - 1
    ELSE Len(source)

\* C23: after "//" scan_token consumes every character up to but not
\* including the next newline, or to the end of the input, and emits no token
\* and counts no line; a '/' not followed by '/' emits one Slash token.
C23_CommentOrSlash ==
    [][ScanTokenOn({"/"}) =>
          /\ pc' = "scanning"
          /\ line' = line
          /\ IF SlashFollows
             THEN tokens' = tokens /\ current' = LineEnd(current + 2)
             ELSE /\ tokens' = Append(tokens, Token_new("Slash", <<"/">>, line))
                  /\ current' = current + 1]_vars

BinaryTokenKinds ==
    {"EqualEqual", "BangEqual", "Less", "LessEqual", "Greater",
     "GreaterEqual", "Plus", "Minus", "Slash", "Star"}

\* The operators of the nodes of an Expr, in source order.
RECURSIVE OperatorsOf(_)
OperatorsOf(e) ==
    CASE e.node = "Unary" -> <<e.op>> \o OperatorsOf(e.kids[1])
      [] e.node = "Binary" ->
           OperatorsOf(e.kids[1]) \o <<e.op>> \o OperatorsOf(e.kids[2])
      [] e.node = "Grouping" -> OperatorsOf(e.kids[1])
      [] OTHER -> <<>>

\* The operator an operator token stands for: '-' is Minus as a prefix and as
\* an infix operator.
OperatorOfToken(typ) ==
    IF typ = "Bang" THEN "Not" ELSE BinOp_from_token_type(typ)

\* The operators of the operator tokens among the first n tokens, in order.
RECURSIVE OperatorsConsumed(_, _)
OperatorsConsumed(toks, n) ==
    IF n = 0 THEN <<>>
    ELSE OperatorsConsumed(toks, n - 1)
             \o (IF toks[n].tok_type \in BinaryTokenKinds \cup {"Bang"}
                 THEN <<OperatorOfToken(toks[n].tok_type)>>
                 ELSE <<>>)

\* C24: no parse fails with "Unexpected token type": binary_from_token is
\* only called with one of the ten binary operator kinds and unary_from_token
\* with Bang or Minus, and the operators of the Binary and Unary nodes of the
\* Expr returned are those of the operator tokens consumed, in their order.
C24_OperatorsFromTokens ==
    /\ panic_msg.msg \notin {"Unexpected token type for binary operator!",
                              "Unexpected token type for unary operator!"}
    /\ (calls = 1 /\ pc = "parsed") =>
           OperatorsOf(result) = OperatorsConsumed(tokens, p_current)

C24_Witness ==
    /\ calls = 1
    /\ pc = "parsed"
    /\ source = <<"1", " ", "<", " ", "2", " ", "=", "=", " ", "3", " ", ">", " ", "4">>
    /\ OperatorsOf(result) = <<"Lt", "Equal", "Gt">>

C24_WitnessUnary ==
    /\ calls = 1
    /\ pc = "parsed"
    /\ OperatorsOf(result) = <<"Not", "Minus">>

\* C25: for any source, one with multi-byte characters included, the scanner
\* never reads source_chars out of bounds: when the cursor equals the number
\* of characters is_at_end is true, and no scan fails.
C25_ScannerInBounds ==
    /\ current = Len(source) => is_at_end(Self)
    /\ pc # "panic_scan"

\* scan_tokens has returned, whatever the number of calls.
ScanReturned == calls >= 1 /\ pc \in {"scanned", "parsed", "panic_parse"}

\* C26: after any number of calls of scan_tokens on one Scanner the token
\* sequence holds exactly one Eof token, as its last element.
C26_OneEofAfterEveryCall ==
    ScanReturned =>
        /\ tokens # <<>>
        /\ Cardinality({i \in 1..Len(tokens) : tokens[i].tok_type = "Eof"}) = 1
        /\ tokens[Len(tokens)].tok_type = "Eof"

\* Every character of the source is one byte in UTF-8.
IsAscii == \A i \in 1..Len(source) : len_utf8(source[i]) = 1

\* C27: on an ASCII source every call of scan_token moves the cursor on by at
\* least one character, start <= current <= length of the source holds in
\* every state, and a scan that has begun reaches the state where Eof has
\* been appended.
C27_ScanTerminates ==
    /\ [][(IsAscii /\ ScanToken) => current' > current]_vars
    /\ [](IsAscii => (start <= current /\ current <= Len(source)))
    /\ (IsAscii /\ pc = "scanning") ~>
           (pc = "scanned" /\ tokens # <<>>
                /\ tokens[Len(tokens)].tok_type = "Eof")

C27_Witness ==
    /\ calls = 1
    /\ pc = "scanned"
    /\ IsAscii
    /\ source = Src_Operators
    /\ current = Len(source)
    /\ tokens[Len(tokens)].tok_type = "Eof"

====
